---- MODULE Spec2Model ----
(***************************************************************************)
(* BoTSORT tracker controller (src/src/BoTSORT.cpp): the constructor and   *)
(* the per-frame algorithm BoTSORT::track, with _merge_track_lists.        *)
(*                                                                         *)
(* Track, the Kalman filter, the cost-matrix builders and the linear       *)
(* assignment live in other files of the repository (Track.h, matching.h); *)
(* their operators below follow the written specification.                 *)
(*                                                                         *)
(* Numbers.  Confidences and thresholds are floats; a value c of the model *)
(* stands for the float nearest to c/100.  Costs are fixed point, one unit *)
(* = 1e-5.  Boxes are integer tlwh rectangles.  The Kalman state is kept   *)
(* as the box it describes, with zero velocity (the state KF initiate      *)
(* produces), so a prediction leaves the box where it is and ages the      *)
(* covariance, and an update moves the box onto the measurement.  Re-ID is *)
(* disabled (the constructor got no model weights), which is the branch of *)
(* lines 65-67 and 113.                                                    *)
(*                                                                         *)
(* Specifications.  Spec: the runs of the tracker from its constructor.    *)
(* SpecFail: the same runs, with frames on which the GMC backend raises.   *)
(* SpecCtor: the constructor over 8-bit arguments.  SpecLists, SpecMerge:  *)
(* the body of track() as a function of the member lists it reads, the     *)
(* lists drawn from bounded sets; BoTSORT.cpp never writes these lists, so *)
(* no run from the constructor reaches a state of these two.               *)
(***************************************************************************)
EXTENDS Integers, Sequences, FiniteSets, TLC

VARIABLES
    constructed,        \* the constructor has run
    frame_rate,         \* _frame_rate, 8 bits unsigned
    track_buffer,       \* _track_buffer, 8 bits unsigned
    new_track_thresh,   \* _new_track_thresh, hundredths
    track_high_thresh,  \* _track_high_thresh, hundredths
    match_thresh,       \* _match_thresh, hundredths
    max_time_lost,      \* _max_time_lost
    frame_id,           \* _frame_id
    heap,               \* the Track objects the pools point to: pointer -> Track
    tracked_tracks,     \* _tracked_tracks: sequence of pointers
    lost_tracks,        \* _lost_tracks: sequence of pointers
    track_count,        \* the id counter Track draws fresh track_ids from
    out,                \* what the last track() call computed and returned
    single_object       \* history: every call so far was a frame of one object,
                        \* detected at high confidence, IoU >= 0.5 frame to frame

vars == <<constructed, frame_rate, track_buffer, new_track_thresh,
          track_high_thresh, match_thresh, max_time_lost, frame_id, heap,
          tracked_tracks, lost_tracks, track_count, out,
          single_object>>

----------------------------------------------------------------------------
(* Bounds of the model *)

MaxFrames == 3
MaxDets == 2
NTracks == 2

(* The inputs frames are drawn from *)

DetXs == {-1, 1, 5}
DetConfs == {3, 5, 10, 90}
PoolDetConfs == {30, 90}
DetSize == [w |-> 4, h |-> 3]
Frame == [cols |-> 12, rows |-> 3]
GmcShifts == {0, 1}
HighThreshs == {5, 60}
NewTrackThreshs == {70}
MatchThreshs == {80}
FrameRates == {30}
TrackBuffers == {1}

\* the detections a caller may pass, with confidences drawn from confs
DetInputs(confs) ==
    {[bbox_tlwh |-> [x |-> x, y |-> 0, w |-> DetSize.w, h |-> DetSize.h], confidence |-> c] :
        x \in DetXs, c \in confs}

(* Fixed point: one cost unit is 1e-5, one confidence unit is 1e-2 *)
Unit == 1000 * 100

----------------------------------------------------------------------------
(* Small helpers *)

Max(a, b) == IF a >= b THEN a ELSE b
Min(a, b) == IF a <= b THEN a ELSE b

Range(s) == {s[i] : i \in 1..Len(s)}

RECURSIVE SetToSeq(_)
SetToSeq(S) ==
    IF S = {} THEN <<>>
    ELSE LET m == CHOOSE x \in S : \A y \in S : x <= y
         IN <<m>> \o SetToSeq(S \ {m})

RECURSIVE SumCost(_, _)
SumCost(pairs, cost) ==
    IF pairs = {} THEN 0
    ELSE LET p == CHOOSE q \in pairs : TRUE
         IN cost[p[1]][p[2]] + SumCost(pairs \ {p}, cost)

----------------------------------------------------------------------------
(* Track (Track.h) *)

Tracked == "Tracked"
Lost == "Lost"
Removed == "Removed"
New == "New"

\* Track(tlwh, confidence, class_id): a track object built from a detection
NewTrack(tlwh, confidence) ==
    [track_id |-> 0, state |-> New, is_activated |-> FALSE, tlwh |-> tlwh,
     score |-> confidence, start_frame |-> 0, frame_id |-> 0, tracklet_len |-> 0,
     kf_age |-> 0]

\* Track::update
Update(t, det, fid) ==
    [t EXCEPT !.tlwh = det.tlwh, !.score = det.score, !.frame_id = fid,
              !.tracklet_len = t.tracklet_len + 1, !.kf_age = 0]

\* the id counter after re_activate: a new_id request draws the next id
NextId(count, new_id) == IF new_id THEN count + 1 ELSE count

\* Track::re_activate; count is the id counter, from which a new_id request draws
ReActivate(t, det, fid, new_id, count) ==
    [t EXCEPT !.tlwh = det.tlwh, !.score = det.score, !.frame_id = fid,
              !.tracklet_len = 0, !.kf_age = 0, !.state = Tracked, !.is_activated = TRUE,
              !.track_id = IF new_id THEN NextId(count, new_id) ELSE t.track_id]

\* Track::mark_lost
MarkLost(t) == [t EXCEPT !.state = Lost]

\* Track::multi_predict on one track: with zero velocity the box stays, and the
\* covariance grows by one step of process noise (kf_age counts the predictions
\* since the last Kalman update)
Predict(t) == [t EXCEPT !.kf_age = t.kf_age + 1]

\* Track::multi_gmc on one track: H is a translation by dx pixels
Gmc(t, dx) == [t EXCEPT !.tlwh.x = t.tlwh.x + dx]

RECURSIVE MultiPredict(_, _)
MultiPredict(h, ptrs) ==
    IF ptrs = <<>> THEN h
    ELSE MultiPredict([h EXCEPT ![Head(ptrs)] = Predict(h[Head(ptrs)])], Tail(ptrs))

RECURSIVE MultiGmc(_, _, _)
MultiGmc(h, ptrs, dx) ==
    IF ptrs = <<>> THEN h
    ELSE MultiGmc([h EXCEPT ![Head(ptrs)] = Gmc(h[Head(ptrs)], dx)], Tail(ptrs), dx)

----------------------------------------------------------------------------
(* Cost matrices and linear assignment (matching.h) *)

Area(b) == b.w * b.h

Inter(a, b) ==
    Max(0, Min(a.x + a.w, b.x + b.w) - Max(a.x, b.x))
    * Max(0, Min(a.y + a.h, b.y + b.h) - Max(a.y, b.y))

\* IoU of two boxes in cost units; 0 for a box without area
IoU(a, b) ==
    LET i == Inter(a, b)
        u == Area(a) + Area(b) - i
    IN IF u <= 0 THEN 0 ELSE (i * Unit) \div u

\* a default-constructed CostMatrix: no rows, no columns
EmptyCostMatrix == [rows |-> 0, cols |-> 0, at |-> <<>>]

\* iou_distance(tracks, detections): rows = tracks, columns = detections
IouDistance(ts, ds) ==
    [rows |-> Len(ts), cols |-> Len(ds),
     at |-> [r \in 1..Len(ts) |-> [c \in 1..Len(ds) |-> Unit - IoU(ts[r].tlwh, ds[c].tlwh)]]]

\* fuse_score(cost, detections): 1 - (1 - cost) * confidence
FuseScore(cost, ds) ==
    [cost EXCEPT !.at =
        [r \in 1..cost.rows |->
            [c \in 1..cost.cols |-> Unit - ((Unit - cost.at[r][c]) * ds[c].score) \div 100]]]

\* fuse_iou_with_emb with Re-ID disabled (emb_cost empty): the IoU cost
FuseIouWithEmb(iou_cost, emb_cost) == IF emb_cost.rows = 0 THEN iou_cost ELSE emb_cost

\* the matchings of a cost matrix allowed by the gate
Matchings(cost, thresh) ==
    {m \in SUBSET {p \in (1..cost.rows) \X (1..cost.cols) : cost.at[p[1]][p[2]] <= thresh} :
        \A p, q \in m : p # q => (p[1] # q[1] /\ p[2] # q[2])}

\* total of the padded square assignment: gated and padding entries cost thresh + 1e-5
PaddedCost(m, cost, thresh) ==
    SumCost(m, cost.at) + (Max(cost.rows, cost.cols) - Cardinality(m)) * (thresh + 1)

\* the matches of an assignment, in row order
MatchSeq(m) ==
    LET rows == SetToSeq({p[1] : p \in m})
    IN [i \in 1..Len(rows) |-> CHOOSE p \in m : p[1] = rows[i]]

\* linear_assignment(cost, thresh, associations): every optimal AssociationData
LinearAssignment(cost, thresh) ==
    LET ms == Matchings(cost, thresh)
        best == {m \in ms : \A n \in ms :
                    PaddedCost(m, cost, thresh) <= PaddedCost(n, cost, thresh)}
    IN IF cost.rows = 0 \/ cost.cols = 0
       THEN {[matches |-> <<>>,
              unmatched_track_indices |-> SetToSeq(1..cost.rows),
              unmatched_det_indices |-> SetToSeq(1..cost.cols)]}
       ELSE {[matches |-> MatchSeq(m),
              unmatched_track_indices |-> SetToSeq((1..cost.rows) \ {p[1] : p \in m}),
              unmatched_det_indices |-> SetToSeq((1..cost.cols) \ {p[2] : p \in m})] : m \in best}

----------------------------------------------------------------------------
(* BoTSORT::BoTSORT *)

\* line 27, the double _frame_rate / 30.0 * _track_buffer: the pairs of 8-bit
\* arguments with a product below 256 for which the two roundings of the double
\* quotient and product leave the value just under the whole number
\* frame_rate * track_buffer / 30 (for every other pair the double has the
\* integer part of the exact quotient)
DoubleBelow ==
    {<<11, 150>>, <<21, 90>>, <<21, 170>>, <<21, 180>>, <<22, 75>>, <<22, 150>>,
     <<22, 165>>, <<42, 45>>, <<42, 85>>, <<42, 90>>, <<42, 165>>, <<42, 170>>,
     <<42, 175>>, <<42, 180>>, <<44, 75>>, <<44, 150>>, <<44, 165>>, <<65, 54>>,
     <<65, 102>>, <<65, 108>>, <<65, 114>>, <<69, 50>>, <<69, 90>>, <<69, 100>>,
     <<69, 110>>, <<73, 90>>, <<84, 45>>, <<84, 85>>, <<84, 90>>, <<88, 75>>,
     <<123, 30>>, <<123, 50>>, <<123, 60>>, <<130, 27>>, <<130, 51>>, <<130, 54>>,
     <<130, 57>>, <<138, 25>>, <<138, 45>>, <<138, 50>>, <<138, 55>>, <<146, 45>>,
     <<153, 50>>, <<168, 45>>, <<245, 30>>, <<246, 15>>, <<246, 25>>, <<246, 30>>,
     <<247, 30>>}

\* the values of a uint8_t
Uint8 == 0..255

\* line 27: static_cast<uint8_t>(_frame_rate / 30.0 * _track_buffer). The cast
\* truncates toward zero; a value the type cannot hold makes the conversion
\* undefined, and the build may leave any 8-bit value.
BufferSize(fr, tb) ==
    IF (fr * tb) \div 30 \in Uint8
    THEN {(fr * tb) \div 30 - (IF <<fr, tb>> \in DoubleBelow THEN 1 ELSE 0)}
    ELSE Uint8

----------------------------------------------------------------------------
(* BoTSORT::track *)

\* the double literal 0.1 of line 71, in hundredths
Tenth == 10

\* the double literal 0.5 of line 162, in cost units
SecondThresh == 50000

\* detection.confidence > 0.1: the float is widened to double, and the float
\* nearest to 0.10 is 0.100000001490116..., which exceeds the double 0.1
ExceedsTenth(confidence) == confidence >= Tenth

\* lines 55-58 and 61: the detection clamped to the frame, as tlwh
ClampDetection(d, frame) ==
    [x |-> Max(0, d.x), y |-> Max(0, d.y),
     w |-> Min(frame.cols - 1, d.w), h |-> Min(frame.rows - 1, d.h)]

\* line 69 with > for >=
IsHighConfStrict(confidence, high_thresh) == confidence > high_thresh

\* line 69
IsHighConf(confidence, high_thresh) == confidence >= high_thresh

\* line 71 (reached only when line 69 is false)
IsLowConf(confidence, high_thresh) ==
    /\ ~IsHighConf(confidence, high_thresh)
    /\ ExceedsTenth(confidence) /\ confidence < high_thresh

\* lines 53-75: detections_high_conf
RECURSIVE DetectionsHighConf(_, _, _)
DetectionsHighConf(dets, frame, high_thresh) ==
    IF dets = <<>> THEN <<>>
    ELSE LET tracklet == NewTrack(ClampDetection(Head(dets).bbox_tlwh, frame), Head(dets).confidence)
         IN (IF IsHighConf(Head(dets).confidence, high_thresh) THEN <<tracklet>> ELSE <<>>)
            \o DetectionsHighConf(Tail(dets), frame, high_thresh)

\* lines 53-75: detections_low_conf
RECURSIVE DetectionsLowConf(_, _, _)
DetectionsLowConf(dets, frame, high_thresh) ==
    IF dets = <<>> THEN <<>>
    ELSE LET tracklet == NewTrack(ClampDetection(Head(dets).bbox_tlwh, frame), Head(dets).confidence)
         IN (IF IsLowConf(Head(dets).confidence, high_thresh) THEN <<tracklet>> ELSE <<>>)
            \o DetectionsLowConf(Tail(dets), frame, high_thresh)

\* lines 78-85: unconfirmed_tracks
RECURSIVE UnconfirmedTracks(_, _)
UnconfirmedTracks(ptrs, h) ==
    IF ptrs = <<>> THEN <<>>
    ELSE (IF ~h[Head(ptrs)].is_activated THEN <<Head(ptrs)>> ELSE <<>>)
         \o UnconfirmedTracks(Tail(ptrs), h)

\* lines 78-85: tracked_tracks (the local list)
RECURSIVE ConfirmedTracks(_, _)
ConfirmedTracks(ptrs, h) ==
    IF ptrs = <<>> THEN <<>>
    ELSE (IF ~h[Head(ptrs)].is_activated THEN <<>> ELSE <<Head(ptrs)>>)
         \o ConfirmedTracks(Tail(ptrs), h)

\* list b appended without recording the ids of the tracks taken from it
RECURSIVE MergeBNoMark(_, _, _, _)
MergeBNoMark(list_b, exists, merged, h) ==
    IF list_b = <<>> THEN merged
    ELSE LET id == h[Head(list_b)].track_id
         IN IF id \notin exists
            THEN MergeBNoMark(Tail(list_b), exists, Append(merged, Head(list_b)), h)
            ELSE MergeBNoMark(Tail(list_b), exists, merged, h)

\* lines 216-221: list b appended to merged, skipping ids that exist
RECURSIVE MergeB(_, _, _, _)
MergeB(list_b, exists, merged, h) ==
    IF list_b = <<>> THEN merged
    ELSE LET id == h[Head(list_b)].track_id
         IN IF id \notin exists
            THEN MergeB(Tail(list_b), exists \cup {id}, Append(merged, Head(list_b)), h)
            ELSE MergeB(Tail(list_b), exists, merged, h)

\* _merge_track_lists
MergeTrackLists(list_a, list_b, h) ==
    MergeB(list_b, {h[list_a[i]].track_id : i \in 1..Len(list_a)}, list_a, h)

\* the Track objects a list of pointers refers to
Deref(ptrs, h) == [i \in 1..Len(ptrs) |-> h[ptrs[i]]]

\* the prediction applied to the unconfirmed tracks as well
PredictAndCompensateAll(h, pool, unconfirmed, dx) ==
    MultiGmc(MultiGmc(MultiPredict(MultiPredict(h, pool), unconfirmed), pool, dx), unconfirmed, dx)

\* lines 95-100: multi_predict on the pool, then the homography of the frame on
\* the pool and on the unconfirmed tracks
PredictAndCompensate(h, pool, unconfirmed, dx) ==
    MultiGmc(MultiGmc(MultiPredict(h, pool), pool, dx), unconfirmed, dx)

\* lines 107-120: distances_first_association
FirstAssociationCost(pool, h, high) ==
    FuseIouWithEmb(FuseScore(IouDistance(Deref(pool, h), high), high), EmptyCostMatrix)

\* the dispatch with its two branches exchanged
DispatchMatchSwapped(r, ptr, detection, fid) ==
    IF r.heap[ptr].state # Tracked
    THEN [r EXCEPT !.heap[ptr] = Update(r.heap[ptr], detection, fid),
                   !.activated = Append(r.activated, ptr)]
    ELSE [r EXCEPT !.heap[ptr] = ReActivate(r.heap[ptr], detection, fid, FALSE, r.count),
                   !.refind = Append(r.refind, ptr),
                   !.count = NextId(r.count, FALSE)]

\* the dispatch with re_activate asked for a new id
DispatchMatchNewId(r, ptr, detection, fid) ==
    IF r.heap[ptr].state = Tracked
    THEN [r EXCEPT !.heap[ptr] = Update(r.heap[ptr], detection, fid),
                   !.activated = Append(r.activated, ptr)]
    ELSE [r EXCEPT !.heap[ptr] = ReActivate(r.heap[ptr], detection, fid, TRUE, r.count),
                   !.refind = Append(r.refind, ptr),
                   !.count = NextId(r.count, TRUE)]

\* lines 131-140, one match handled: r = [heap, activated, refind, count]
DispatchMatch(r, ptr, detection, fid) ==
    IF r.heap[ptr].state = Tracked
    THEN [r EXCEPT !.heap[ptr] = Update(r.heap[ptr], detection, fid),
                   !.activated = Append(r.activated, ptr)]
    ELSE [r EXCEPT !.heap[ptr] = ReActivate(r.heap[ptr], detection, fid, FALSE, r.count),
                   !.refind = Append(r.refind, ptr),
                   !.count = NextId(r.count, FALSE)]

\* lines 127-141 and 165-179: the loop over the matches of one association
RECURSIVE UpdateMatched(_, _, _, _, _)
UpdateMatched(r, matches, tracks, detections, fid) ==
    IF matches = <<>> THEN r
    ELSE UpdateMatched(
            DispatchMatch(r, tracks[Head(matches)[1]], detections[Head(matches)[2]], fid),
            Tail(matches), tracks, detections, fid)

\* every Tracked track of the pool taken into the second association
UnmatchedTrackedAll(indices, pool, h) == SelectSeq(pool, LAMBDA p : h[p].state = Tracked)

\* lines 147-154: unmatched_tracks_after_1st_association
RECURSIVE UnmatchedTracked(_, _, _)
UnmatchedTracked(indices, pool, h) ==
    IF indices = <<>> THEN <<>>
    ELSE (IF h[pool[Head(indices)]].state = Tracked THEN <<pool[Head(indices)]>> ELSE <<>>)
         \o UnmatchedTracked(Tail(indices), pool, h)

\* lines 157-158: iou_dists_second is declared and never assigned; the result of
\* iou_distance(unmatched, low) is discarded
IouDistsSecond(unmatched, low) == EmptyCostMatrix

\* lines 182-189: r = [heap, lost]
RECURSIVE MarkLostLoop(_, _, _)
MarkLostLoop(r, indices, tracks) ==
    IF indices = <<>> THEN r
    ELSE LET ptr == tracks[Head(indices)]
         IN IF r.heap[ptr].state # Lost
            THEN MarkLostLoop([heap |-> [r.heap EXCEPT ![ptr] = MarkLost(r.heap[ptr])],
                               lost |-> Append(r.lost, ptr)], Tail(indices), tracks)
            ELSE MarkLostLoop(r, Tail(indices), tracks)

\* line 198: return std::vector<Track>()
Returned(tracked, h) == <<>>

\* what a call leaves in out
CallRecord(detections, before, high, low, unconfirmed, pool, dx, h3, first, r1, unmatched, second, r2, r3) ==
    [called |-> TRUE,
     completed |-> TRUE,
     gmc |-> "applied",
     detections |-> detections,
     before |-> before,
     count_before |-> track_count,
     H |-> dx,
     after_gmc |-> h3,
     after_first |-> r1.heap,
     detections_high_conf |-> high,
     detections_low_conf |-> low,
     unconfirmed_tracks |-> unconfirmed,
     tracks_pool |-> pool,
     first_associations |-> first,
     unmatched_tracks |-> unmatched,
     second_associations |-> second,
     activated_tracks |-> r2.activated,
     refind_tracks |-> r2.refind,
     lost_tracks |-> r3.lost,
     returned |-> Returned(tracked_tracks, r3.heap)]

\* out before the first call
NoCall ==
    [called |-> FALSE, completed |-> FALSE, gmc |-> "none",
     detections |-> <<>>, before |-> <<>>, count_before |-> 0,
     H |-> 0, after_gmc |-> <<>>, after_first |-> <<>>,
     detections_high_conf |-> <<>>, detections_low_conf |-> <<>>,
     unconfirmed_tracks |-> <<>>, tracks_pool |-> <<>>,
     first_associations |-> [matches |-> <<>>, unmatched_track_indices |-> <<>>,
                             unmatched_det_indices |-> <<>>],
     unmatched_tracks |-> <<>>,
     second_associations |-> [matches |-> <<>>, unmatched_track_indices |-> <<>>,
                              unmatched_det_indices |-> <<>>],
     activated_tracks |-> <<>>, refind_tracks |-> <<>>, lost_tracks |-> <<>>,
     returned |-> <<>>]

\* the history variable: this frame continues a sequence of frames of one object
SingleObjectFrame(detections, high, frame) ==
    /\ single_object
    /\ Len(detections) = 1
    /\ Len(high) = 1
    /\ (out.called =>
          IoU(ClampDetection(out.detections[1].bbox_tlwh, frame), high[1].tlwh)
             >= Unit \div 2)

\* the whole of BoTSORT::track for one frame; each \E over a one-element set
\* names the value of a local variable of the function
track(detections, frame, dx) ==
    /\ constructed
    /\ frame_id < MaxFrames
    /\ \E fid \in {frame_id + 1},
          high \in {DetectionsHighConf(detections, frame, track_high_thresh)},
          low \in {DetectionsLowConf(detections, frame, track_high_thresh)},
          unconfirmed \in {UnconfirmedTracks(tracked_tracks, heap)},
          pool \in {MergeTrackLists(ConfirmedTracks(tracked_tracks, heap), lost_tracks, heap)} :
       \E h3 \in {PredictAndCompensate(heap, pool, unconfirmed, dx)} :
       \E first \in LinearAssignment(FirstAssociationCost(pool, h3, high),
                                     match_thresh * (Unit \div 100)) :
       \E r1 \in {UpdateMatched([heap |-> h3, activated |-> <<>>, refind |-> <<>>,
                                 count |-> track_count],
                                first.matches, pool, high, fid)} :
       \E unmatched \in {UnmatchedTracked(first.unmatched_track_indices, pool, r1.heap)} :
       \E second \in LinearAssignment(IouDistsSecond(Deref(unmatched, r1.heap), low),
                                      SecondThresh) :
       \E r2 \in {UpdateMatched(r1, second.matches, unmatched, low, fid)} :
       \E r3 \in {MarkLostLoop([heap |-> r2.heap, lost |-> <<>>],
                               second.unmatched_track_indices, unmatched)} :
          /\ frame_id' = fid
          /\ heap' = r3.heap
          /\ track_count' = r2.count
          /\ out' = CallRecord(detections, heap, high, low, unconfirmed, pool, dx, h3,
                               first, r1, unmatched, second, r2, r3)
          /\ single_object' = SingleObjectFrame(detections, high, frame)
          /\ UNCHANGED <<constructed, frame_rate, track_buffer, new_track_thresh,
                         track_high_thresh, match_thresh, max_time_lost,
                         tracked_tracks, lost_tracks>>

\* GlobalMotionCompensation::apply: it returns a homography, or it raises
\* (BackendFailure)
GmcApply == {"returned", "raised"}

\* BoTSORT::track when _gmc_algo->apply raises at line 98: no statement of
\* track() is inside a try block, so the exception leaves the call after lines
\* 49-95 have run
trackGmcThrows(detections, frame) ==
    /\ constructed
    /\ frame_id < MaxFrames
    /\ \E fid \in {frame_id + 1},
          high \in {DetectionsHighConf(detections, frame, track_high_thresh)},
          low \in {DetectionsLowConf(detections, frame, track_high_thresh)},
          unconfirmed \in {UnconfirmedTracks(tracked_tracks, heap)},
          pool \in {MergeTrackLists(ConfirmedTracks(tracked_tracks, heap), lost_tracks, heap)} :
          /\ frame_id' = fid
          /\ heap' = MultiPredict(heap, pool)
          /\ out' = [NoCall EXCEPT !.called = TRUE, !.gmc = "failed",
                                   !.detections = detections, !.before = heap,
                                   !.count_before = track_count,
                                   !.detections_high_conf = high,
                                   !.detections_low_conf = low,
                                   !.unconfirmed_tracks = unconfirmed,
                                   !.tracks_pool = pool]
          /\ single_object' = FALSE
          /\ UNCHANGED <<constructed, frame_rate, track_buffer, new_track_thresh,
                         track_high_thresh, match_thresh, max_time_lost,
                         tracked_tracks, lost_tracks, track_count>>

----------------------------------------------------------------------------
(* Frames *)

DetKey(d) == d.bbox_tlwh.x * 1000 + d.confidence

RECURSIVE DetList(_)
DetList(S) ==
    IF S = {} THEN <<>>
    ELSE LET d == CHOOSE e \in S : \A f \in S : DetKey(e) <= DetKey(f)
         IN <<d>> \o DetList(S \ {d})

\* the detection lists of a frame: up to MaxDets distinct detections
DetLists(confs) ==
    {DetList(S) : S \in {T \in SUBSET DetInputs(confs) : Cardinality(T) <= MaxDets}}

AllDetLists == DetLists(DetConfs)
PoolDetLists == DetLists(PoolDetConfs)

\* the tracker as the constructor leaves it (lines 16-28; the pools start empty)
Init ==
    /\ constructed = TRUE
    /\ frame_rate \in FrameRates
    /\ track_buffer \in TrackBuffers
    /\ new_track_thresh \in NewTrackThreshs
    /\ track_high_thresh \in HighThreshs
    /\ match_thresh \in MatchThreshs
    /\ max_time_lost \in BufferSize(frame_rate, track_buffer)
    /\ frame_id = 0
    /\ heap = <<>>
    /\ tracked_tracks = <<>>
    /\ lost_tracks = <<>>
    /\ track_count = 0
    /\ out = NoCall
    /\ single_object = TRUE

\* the constructor applied to 8-bit frame rates and track buffers
CtorFrameRates == {1, 11, 20, 21, 25, 30, 60, 255}
CtorTrackBuffers == {0, 1, 30, 45, 90, 150, 200, 255}

InitCtor ==
    /\ constructed = FALSE
    /\ frame_rate \in CtorFrameRates
    /\ track_buffer \in CtorTrackBuffers
    /\ new_track_thresh \in NewTrackThreshs
    /\ track_high_thresh \in HighThreshs
    /\ match_thresh \in MatchThreshs
    /\ max_time_lost = 0
    /\ frame_id = 0
    /\ heap = <<>>
    /\ tracked_tracks = <<>>
    /\ lost_tracks = <<>>
    /\ track_count = 0
    /\ out = NoCall
    /\ single_object = TRUE

BoTSORT ==
    /\ ~constructed
    /\ constructed' = TRUE
    /\ max_time_lost' \in BufferSize(frame_rate, track_buffer)
    /\ frame_id' = 0
    /\ UNCHANGED <<frame_rate, track_buffer, new_track_thresh, track_high_thresh,
                   match_thresh, heap, tracked_tracks, lost_tracks,
                   track_count, out, single_object>>

NextCtor == BoTSORT

SpecCtor == InitCtor /\ [][NextCtor]_vars

Track == \E detections \in AllDetLists, dx \in GmcShifts : track(detections, Frame, dx)

Next == Track

Spec == Init /\ [][Next]_vars

----------------------------------------------------------------------------
(* The body of track() as a function of the lists it reads.  _tracked_tracks *)
(* and _lost_tracks are inputs here, drawn from bounded sets: NTracks track  *)
(* objects, each one confirmed (Tracked, is_activated), unconfirmed (Tracked, *)
(* not is_activated) or lost, in the list its kind belongs to.  Nothing in   *)
(* BoTSORT.cpp writes the two lists, so these are not states a run from the  *)
(* constructor reaches; what is checked here is what lines 46-199 do to the  *)
(* lists they are given.  track_high_thresh = 0.6.                           *)

Kinds == {"confirmed", "unconfirmed", "lost"}

ListTrack(p, kind, id) ==
    [track_id |-> id,
     state |-> IF kind = "lost" THEN Lost ELSE Tracked,
     is_activated |-> kind # "unconfirmed",
     tlwh |-> [x |-> 5 * (p - 1), y |-> 0, w |-> DetSize.w, h |-> Frame.rows - 1],
     score |-> 90,
     start_frame |-> 1,
     frame_id |-> IF kind = "lost" THEN 1 ELSE 2,
     tracklet_len |-> IF kind = "confirmed" THEN 1 ELSE 0,
     kf_age |-> IF kind = "lost" THEN 1 ELSE 0]

PtrsOf(kinds, ks) == SetToSeq({p \in 1..NTracks : kinds[p] \in ks})

InitLists ==
    /\ constructed = TRUE
    /\ frame_rate \in FrameRates
    /\ track_buffer \in TrackBuffers
    /\ new_track_thresh \in NewTrackThreshs
    /\ track_high_thresh = 60
    /\ match_thresh \in MatchThreshs
    /\ max_time_lost \in BufferSize(frame_rate, track_buffer)
    /\ frame_id = 2
    /\ \E kinds \in [1..NTracks -> Kinds] :
          /\ heap = [p \in 1..NTracks |-> ListTrack(p, kinds[p], p)]
          /\ tracked_tracks = PtrsOf(kinds, {"confirmed", "unconfirmed"})
          /\ lost_tracks = PtrsOf(kinds, {"lost"})
    /\ track_count = NTracks
    /\ out = NoCall
    /\ single_object = FALSE

TrackLists == \E detections \in PoolDetLists, dx \in GmcShifts : track(detections, Frame, dx)

NextLists == TrackLists

SpecLists == InitLists /\ [][NextLists]_vars

\* _merge_track_lists on lists that may share track_ids: NTracks + 1 track
\* objects with ids drawn from two values, the tracked and the lost pool each a
\* list of distinct objects in any order
MergeIds == {1, 2}

PtrLists(S) ==
    UNION {{f \in [1..n -> S] : \A i, j \in 1..n : f[i] = f[j] => i = j} : n \in 0..Cardinality(S)}

InitMerge ==
    /\ constructed = TRUE
    /\ frame_rate \in FrameRates
    /\ track_buffer \in TrackBuffers
    /\ new_track_thresh \in NewTrackThreshs
    /\ track_high_thresh = 60
    /\ match_thresh \in MatchThreshs
    /\ max_time_lost \in BufferSize(frame_rate, track_buffer)
    /\ frame_id = MaxFrames - 1
    /\ \E ids \in [1..(NTracks + 1) -> MergeIds], activated \in BOOLEAN :
          heap = [p \in 1..(NTracks + 1) |->
                     [ListTrack(p, "confirmed", ids[p]) EXCEPT !.is_activated = (p > 1 \/ activated)]]
    /\ tracked_tracks \in PtrLists(1..(NTracks + 1))
    /\ lost_tracks \in PtrLists(1..(NTracks + 1))
    /\ track_count = NTracks
    /\ out = NoCall
    /\ single_object = FALSE

TrackMerge == \E dx \in GmcShifts : track(<<>>, Frame, dx)

NextMerge == TrackMerge

SpecMerge == InitMerge /\ [][NextMerge]_vars

\* the runs from the constructor, with frames on which the GMC backend raises
TrackGmcThrows ==
    /\ "raised" \in GmcApply
    /\ \E detections \in AllDetLists : trackGmcThrows(detections, Frame)

NextFail == Track \/ TrackGmcThrows

SpecFail == Init /\ [][NextFail]_vars

----------------------------------------------------------------------------
(* Properties *)

\* C3: while every frame so far showed one object at high confidence, with
\* IoU >= 0.5 from frame to frame, each frame from the second on returns
\* exactly one track, and its track_id is 1.
C3_IdentityStability ==
    (single_object /\ frame_id >= 2) =>
        /\ Len(out.returned) = 1
        /\ out.returned[1].track_id = 1

\* the pool tracks matched in the first association that were Lost before the frame
ReFound ==
    {out.tracks_pool[out.first_associations.matches[i][1]] :
        i \in {j \in 1..Len(out.first_associations.matches) :
                 out.before[out.tracks_pool[out.first_associations.matches[j][1]]].state = Lost}}

\* C6: a Lost track matched to a high-confidence detection in the first
\* association is Tracked and activated after the frame, with the track_id it
\* had, and no id was allocated for it.
C6_ReActivation ==
    out.called =>
        /\ \A p \in ReFound :
              /\ heap[p].state = Tracked
              /\ heap[p].is_activated
              /\ heap[p].track_id = out.before[p].track_id
              /\ heap[p].frame_id = frame_id
        /\ track_count = out.count_before

\* a lost track was matched in the first association of a frame
C6_Witness == out.called /\ ReFound # {}

\* the gate of the unconfirmed-track association (0.7), in cost units
UnconfirmedThresh == 7 * (Unit \div 10)

\* the high-confidence detections the first association left unmatched
UnmatchedHigh ==
    [i \in 1..Len(out.first_associations.unmatched_det_indices) |->
        out.detections_high_conf[out.first_associations.unmatched_det_indices[i]]]

\* the unconfirmed-track association of the frame: unconfirmed tracks against
\* the unmatched high-confidence detections, IoU fused with score, gate 0.7
UnconfirmedAssociations ==
    LinearAssignment(
        FuseScore(IouDistance(Deref(out.unconfirmed_tracks, out.after_first), UnmatchedHigh),
                  UnmatchedHigh),
        UnconfirmedThresh)

MatchedRows(a) == {a.matches[i][1] : i \in 1..Len(a.matches)}

\* the second association as specified: the still-Tracked tracks the first
\* association left unmatched against the low-confidence detections, IoU
\* distance, gate 0.5
SecondAssociations ==
    LinearAssignment(
        IouDistance(Deref(out.unmatched_tracks, out.after_first), out.detections_low_conf),
        SecondThresh)

Tracklet(d) == NewTrack(ClampDetection(d.bbox_tlwh, Frame), d.confidence)

InHigh(d) == Tracklet(d) \in Range(out.detections_high_conf)
InLow(d) == Tracklet(d) \in Range(out.detections_low_conf)

\* the detections that take part in the frame's associations are the listed ones
OnlyListedAssociated ==
    /\ MatchedRows(out.first_associations) \subseteq 1..Len(out.tracks_pool)
    /\ {out.first_associations.matches[i][2] : i \in 1..Len(out.first_associations.matches)}
          \cup Range(out.first_associations.unmatched_det_indices)
          = 1..Len(out.detections_high_conf)
    /\ {out.second_associations.matches[i][2] : i \in 1..Len(out.second_associations.matches)}
          \subseteq 1..Len(out.detections_low_conf)
    /\ Len(out.detections_high_conf) + Len(out.detections_low_conf) <= Len(out.detections)
    /\ DOMAIN heap = DOMAIN out.before

\* C10 as stated: high iff confidence >= track_high_thresh, low iff
\* 0.1 < confidence < track_high_thresh, in neither list iff confidence <= 0.1,
\* never in both.
C10_SplitAsStated ==
    out.called =>
        \A i \in 1..Len(out.detections) :
            LET d == out.detections[i] IN
            /\ InHigh(d) <=> d.confidence >= track_high_thresh
            /\ InLow(d) <=> (ExceedsTenth(d.confidence) /\ d.confidence < track_high_thresh)
            /\ (~InHigh(d) /\ ~InLow(d)) <=> ~ExceedsTenth(d.confidence)
            /\ ~(InHigh(d) /\ InLow(d))

\* C10 amended: a detection is in neither list iff confidence <= 0.1 and
\* confidence < track_high_thresh; the dropped detections are in no association.
C10_ConfidenceSplit ==
    out.called =>
        /\ \A i \in 1..Len(out.detections) :
              LET d == out.detections[i] IN
              /\ InHigh(d) <=> d.confidence >= track_high_thresh
              /\ InLow(d) <=> (ExceedsTenth(d.confidence) /\ d.confidence < track_high_thresh)
              /\ (~InHigh(d) /\ ~InLow(d))
                    <=> (~ExceedsTenth(d.confidence) /\ d.confidence < track_high_thresh)
              /\ ~(InHigh(d) /\ InLow(d))
        /\ OnlyListedAssociated

\* a frame with track_high_thresh below 0.1 held a detection at or above the
\* threshold and not above 0.1, which went to the high list, and one below the
\* threshold, which was dropped
C10_Witness ==
    /\ out.called
    /\ \E i \in 1..Len(out.detections) :
          /\ ~ExceedsTenth(out.detections[i].confidence)
          /\ InHigh(out.detections[i])
    /\ \E i \in 1..Len(out.detections) :
          /\ ~InHigh(out.detections[i])
          /\ ~InLow(out.detections[i])

\* the tracks the frame created
NewTracks == DOMAIN heap \ DOMAIN out.before

\* the detections that spawn a track under an unconfirmed-track association a:
\* the high-confidence detections still unmatched with confidence at least
\* new_track_thresh
Spawning(a) ==
    {i \in Range(a.unmatched_det_indices) : UnmatchedHigh[i].score >= new_track_thresh}

\* C11: at the end of a frame a new, activated track exists for exactly the
\* high-confidence detections matched in neither the first nor the
\* unconfirmed-track association whose confidence is at least new_track_thresh.
C11_NewTrackSpawning ==
    out.called =>
        \E a \in UnconfirmedAssociations :
            \E f \in [Spawning(a) -> NewTracks] :
                /\ \A i, j \in Spawning(a) : f[i] = f[j] => i = j
                /\ \A p \in NewTracks : \E i \in Spawning(a) : f[i] = p
                /\ \A i \in Spawning(a) :
                      /\ heap[f[i]].tlwh = UnmatchedHigh[i].tlwh
                      /\ heap[f[i]].is_activated
                      /\ heap[f[i]].state = Tracked

\* round(frame_rate / 30 * track_buffer), halves away from zero
Rounded(fr, tb) == (2 * fr * tb + 30) \div 60

\* C13: for every 8-bit frame_rate and track_buffer the constructed tracker has
\* max_time_lost = round(frame_rate / 30 * track_buffer): the value is neither
\* truncated toward zero nor wrapped modulo 256.
C13_MaxTimeLostRounded ==
    constructed => max_time_lost = Rounded(frame_rate, track_buffer)

\* C15: a frame on which the GMC backend fails is completed with the identity
\* homography, and track() returns.
C15_NoErrorAborts ==
    out.gmc = "failed" => (out.completed /\ out.H = 0)

\* the confirmed tracks of the tracked pool, in order
Confirmed == SelectSeq(tracked_tracks, LAMBDA p : heap[p].is_activated)

IdsOf(ptrs) == {heap[ptrs[i]].track_id : i \in 1..Len(ptrs)}

\* the positions of the lost pool whose track_id occurs neither among the
\* confirmed tracks nor earlier in the lost pool
KeptLost ==
    {j \in 1..Len(lost_tracks) :
        /\ heap[lost_tracks[j]].track_id \notin IdsOf(Confirmed)
        /\ \A k \in 1..(j - 1) : heap[lost_tracks[k]].track_id # heap[lost_tracks[j]].track_id}

\* C16: the pool of a frame is the confirmed tracks of the tracked pool, in
\* order, followed by exactly the lost-pool tracks whose track_id occurs neither
\* among the confirmed tracks nor earlier in the lost pool; if the confirmed
\* list has no repeated id the pool has none, and a track_id of a confirmed track
\* occurs in the pool only on confirmed tracks.
C16_PoolMerge ==
    out.called =>
        LET pool == out.tracks_pool
            n == Len(Confirmed)
            kept == SetToSeq(KeptLost)
        IN /\ Len(pool) = n + Len(kept)
           /\ \A i \in 1..n : pool[i] = Confirmed[i]
           /\ \A i \in 1..Len(kept) : pool[n + i] = lost_tracks[kept[i]]
           /\ Cardinality(IdsOf(Confirmed)) = n => Cardinality(IdsOf(pool)) = Len(pool)
           /\ \A i \in 1..Len(pool) : heap[pool[i]].track_id \in IdsOf(Confirmed) => i <= n

\* a merge that dropped a lost track for an id of a confirmed track and another
\* for an id seen earlier in the lost pool, and kept a lost track
C16_Witness ==
    /\ out.called
    /\ Confirmed # <<>>
    /\ KeptLost # {}
    /\ \E j \in 1..Len(lost_tracks) : heap[lost_tracks[j]].track_id \in IdsOf(Confirmed)
    /\ \E j \in 1..Len(lost_tracks) : \E k \in 1..(j - 1) :
          /\ heap[lost_tracks[k]].track_id = heap[lost_tracks[j]].track_id
          /\ heap[lost_tracks[k]].track_id \notin IdsOf(Confirmed)

\* the pairs the first association matched: pool track and detection
FirstMatched ==
    {<<out.tracks_pool[out.first_associations.matches[i][1]],
       out.detections_high_conf[out.first_associations.matches[i][2]]>> :
        i \in 1..Len(out.first_associations.matches)}

\* C17: for every pair the first association matched, a track that was Tracked
\* is updated with the detection and appended to the activated list, any other
\* track is re-activated with new_id = false and appended to the refind list;
\* no track is in both lists, and every matched track is Tracked afterwards.
C17_FirstDispatch ==
    out.called =>
        /\ \A m \in FirstMatched :
              LET was == out.after_gmc[m[1]]
                  now == out.after_first[m[1]]
              IN /\ now.state = Tracked
                 /\ now.tlwh = m[2].tlwh /\ now.score = m[2].score
                 /\ now.frame_id = frame_id
                 /\ now.track_id = was.track_id
                 /\ IF was.state = Tracked
                    THEN /\ m[1] \in Range(out.activated_tracks)
                         /\ m[1] \notin Range(out.refind_tracks)
                         /\ now.tracklet_len = was.tracklet_len + 1
                         /\ now.is_activated = was.is_activated
                    ELSE /\ m[1] \in Range(out.refind_tracks)
                         /\ m[1] \notin Range(out.activated_tracks)
                         /\ now.tracklet_len = 0
                         /\ now.is_activated
        /\ Range(out.activated_tracks) \cap Range(out.refind_tracks) = {}
        /\ track_count = out.count_before

\* a frame whose first association matched a Tracked and a Lost track
C17_Witness ==
    /\ out.called
    /\ \E m \in FirstMatched : out.before[m[1]].state = Tracked
    /\ \E m \in FirstMatched : out.before[m[1]].state = Lost

SecondMatchedTracks ==
    {out.unmatched_tracks[out.second_associations.matches[i][1]] :
        i \in 1..Len(out.second_associations.matches)}

\* the rows and the columns of the matches of an association are distinct
OneToOne(a) ==
    \A i, j \in 1..Len(a.matches) :
        i # j => (a.matches[i][1] # a.matches[j][1] /\ a.matches[i][2] # a.matches[j][2])

\* C19: a track matched in the first association does not enter the second;
\* within a call no track is updated or re-activated more than once, no
\* detection is matched to two tracks, and no track is both in the activated or
\* refind list and in the newly-lost list.
C19_AssociatedOnce ==
    out.called =>
        LET updated == out.activated_tracks \o out.refind_tracks
        IN /\ Range(out.unmatched_tracks) \cap {m[1] : m \in FirstMatched} = {}
           /\ Len(updated) = Cardinality(Range(updated))
           /\ Range(updated) = {m[1] : m \in FirstMatched} \cup SecondMatchedTracks
           /\ Len(updated) = Len(out.first_associations.matches)
                                + Len(out.second_associations.matches)
           /\ OneToOne(out.first_associations) /\ OneToOne(out.second_associations)
           /\ Range(out.lost_tracks) \cap Range(updated) = {}

\* a frame in which one track was matched in the first association while
\* another, still Tracked, went to the second association with a low-confidence
\* detection present
C19_Witness ==
    /\ out.called
    /\ FirstMatched # {}
    /\ out.unmatched_tracks # <<>>
    /\ out.detections_low_conf # <<>>

====
